---- MODULE Spec2Model ----
(***************************************************************************)
(* Soil-moisture forecasting pipeline of atmo_model: the deterministic     *)
(* evolution engine (core.py), the LLM response post-processor             *)
(* (llm_postprocessing.py), the orchestrator (pipeline.py) and the CLI     *)
(* entry point (scripts/predict_soil_moisture.py).                         *)
(*                                                                         *)
(* Reals (Python floats) are fixed-point integers with Scale units per     *)
(* 1.0, or the value NaN.  Timestamps and step durations are whole hours.  *)
(* Texts are sequences of lexical characters; the two string literals that *)
(* occur, "soil_moisture" and "a", are one character each (K and S).       *)
(***************************************************************************)
EXTENDS Integers, Sequences, FiniteSets, TLC

VARIABLES
    \* ---- predict_three_day_soil_moisture (pipeline.py), one call
    pc,                 \* position of the call
    initial_state,      \* argument
    weather_data,       \* argument: raw weather entries
    model,              \* DeterministicAtmosphericModel (its two rates)
    post_processor,     \* LLMPostProcessor: client (None or its response), horizon_hours
    normalised_weather, projected_states, features,
    prompt,             \* built by build_prompt
    received_prompts,   \* what the client callable was called with
    response,           \* what the client returned
    forecast,           \* SoilMoistureForecast under construction / returned
    raised,             \* the exception that ended the call, or None
    \* ---- DeterministicAtmosphericModel.predict / evolve_state exercised directly
    e_call, e_state, e_steps, e_initial, e_weather, e_model, e_hours_ahead, e_result,
    \* ---- LLMPostProcessor.parse_response exercised directly
    p_response, p_horizon, p_result,
    \* ---- the CLI
    cli_pc, state_file, weather_file, cli_exc, output_file, stdout, cli_modelled

pipeVars  == <<pc, initial_state, weather_data, model, post_processor,
               normalised_weather, projected_states, features, prompt,
               received_prompts, response, forecast, raised>>
evolveVars == <<e_call, e_state, e_steps, e_initial, e_weather, e_model, e_hours_ahead, e_result>>
parseVars == <<p_response, p_horizon, p_result>>
cliVars   == <<cli_pc, state_file, weather_file, cli_exc, output_file, stdout, cli_modelled>>
vars      == <<pipeVars, evolveVars, parseVars, cliVars>>

None == "None"
\* float("nan"): a value outside the range of every other float of the model
NaN  == -(2^30)

-----------------------------------------------------------------------------
\* Bounds of the model
MaxWeather == 2      \* longest weather sequence
MaxHorizon == 2      \* largest horizon_hours / hours_ahead
MaxTextLen == 3      \* longest raw response text given to parse_response, in characters
MaxReplyLen == 1     \* longest raw response text a client returns to the pipeline
MaxSeries  == 3      \* longest series inside a structured (dict/list) response
MaxEvolve  == 3      \* evolution steps applied in a row when evolve_state is driven directly

-----------------------------------------------------------------------------
\* Floats

Scale == 10^5

IsNaN(a) == a = NaN

\* float + float, float - float, float * float, float / float (NaN propagates)
FAdd(a, b) == IF IsNaN(a) \/ IsNaN(b) THEN NaN ELSE a + b
FSub(a, b) == IF IsNaN(a) \/ IsNaN(b) THEN NaN ELSE a - b
FMul(a, b) == IF IsNaN(a) \/ IsNaN(b) THEN NaN ELSE (a * b) \div Scale
FDivInt(a, n) == IF IsNaN(a) THEN NaN ELSE a \div n
\* float * (a whole number of hours)
FMulInt(a, n) == IF IsNaN(a) THEN NaN ELSE a * n

\* Python's a < b on floats: every comparison with NaN is False
FLt(a, b) == IF IsNaN(a) \/ IsNaN(b) THEN FALSE ELSE a < b

\* builtins min(a, b) and max(a, b): the first argument unless the second is
\* strictly smaller (greater)
PyMin(a, b) == IF FLt(b, a) THEN b ELSE a
PyMax(a, b) == IF FLt(a, b) THEN b ELSE a

F(intPart, milli) == intPart * Scale + milli * (Scale \div 1000)

-----------------------------------------------------------------------------
\* core.py

DefaultEvaporationRate == 1500     \* 0.015
DefaultPercolationRate == 1000     \* 0.01
DefaultHorizon == 72

DefaultModel == [given |-> TRUE, evaporation_rate |-> DefaultEvaporationRate,
                 percolation_rate |-> DefaultPercolationRate]

AtmosphericState(ts, t, rh, p, sm) ==
    [timestamp |-> ts, temperature_c |-> t, relative_humidity |-> rh,
     precipitation_mm |-> p, soil_moisture |-> sm]

\* evolve_state with the clamp left out (a plausible slip)
evolve_state_noclamp(state, weather, step, m) ==
    LET hours == step
        evapotranspiration ==
            FMulInt(FMul(FSub(Scale, FDivInt(weather["relative_humidity"], 100)),
                         m.evaporation_rate), hours)
        infiltration == FMulInt(FMul(weather["precipitation_mm"], m.percolation_rate), hours)
    IN  AtmosphericState(state.timestamp + step,
                         weather["temperature_c"],
                         weather["relative_humidity"],
                         weather["precipitation_mm"],
                         FSub(FAdd(state.soil_moisture, infiltration), evapotranspiration))

evolve_state(state, weather, step, m) ==
    LET hours == step
        temperature == weather["temperature_c"]
        humidity == weather["relative_humidity"]
        precipitation == weather["precipitation_mm"]
        evapotranspiration ==
            FMulInt(FMul(FSub(Scale, FDivInt(humidity, 100)), m.evaporation_rate), hours)
        infiltration == FMulInt(FMul(precipitation, m.percolation_rate), hours)
        new_soil_moisture == FSub(FAdd(state.soil_moisture, infiltration), evapotranspiration)
        clamped == PyMax(0, PyMin(Scale, new_soil_moisture))
    IN  AtmosphericState(state.timestamp + step, temperature, humidity, precipitation, clamped)

Min2(a, b) == IF a < b THEN a ELSE b

RECURSIVE predict_loop(_, _, _, _, _, _)
predict_loop(m, current_state, weather_inputs, hour, n, states) ==
    IF hour >= n THEN states
    ELSE LET next == evolve_state(current_state, weather_inputs[hour + 1], 1, m)
         IN  predict_loop(m, next, weather_inputs, hour + 1, n, Append(states, next))

\* predict that also returns the state it started from (off-by-one in what is collected)
predict_with_initial(m, init_state, weather_inputs, hours_ahead) ==
    <<init_state>> \o
    predict_loop(m, init_state, weather_inputs, 0,
                 Min2(hours_ahead, Len(weather_inputs)), <<>>)

\* DeterministicAtmosphericModel.predict
predict(m, init_state, weather_inputs, hours_ahead) ==
    predict_loop(m, init_state, weather_inputs, 0,
                 Min2(hours_ahead, Len(weather_inputs)), <<>>)

Get(entry, key, default) == IF key \in DOMAIN entry THEN entry[key] ELSE default

\* load_numerical_weather_outputs: index is 0-based
load_numerical_weather_outputs(raw_weather_data) ==
    [i \in 1..Len(raw_weather_data) |->
        LET entry == raw_weather_data[i]
        IN  [temperature_c     |-> Get(entry, "temperature_c", 0),
             relative_humidity |-> Get(entry, "relative_humidity", 0),
             precipitation_mm  |-> Get(entry, "precipitation_mm", 0),
             hour_index        |-> Get(entry, "hour_index", (i - 1) * Scale)]]

RECURSIVE FSum(_, _)
FSum(states, fld) ==
    IF states = <<>> THEN 0
    ELSE FAdd(FSum(SubSeq(states, 1, Len(states) - 1), fld), states[Len(states)][fld])

\* export_soil_moisture_features
export_soil_moisture_features(states) ==
    IF states = <<>>
    THEN [mean_temperature |-> 0, mean_humidity |-> 0,
          total_precipitation |-> 0, final_soil_moisture |-> 0]
    ELSE [mean_temperature    |-> FDivInt(FSum(states, "temperature_c"), Len(states)),
          mean_humidity       |-> FDivInt(FSum(states, "relative_humidity"), Len(states)),
          total_precipitation |-> FSum(states, "precipitation_mm"),
          final_soil_moisture |-> states[Len(states)].soil_moisture]

-----------------------------------------------------------------------------
\* Texts and JSON (json.loads / json.dumps as used by llm_postprocessing.py)

Digits == {"0", "1", "2", "3", "4", "5", "6", "7", "8", "9"}
DigitVal == [c \in Digits |->
               CASE c = "0" -> 0 [] c = "1" -> 1 [] c = "2" -> 2 [] c = "3" -> 3
                 [] c = "4" -> 4 [] c = "5" -> 5 [] c = "6" -> 6 [] c = "7" -> 7
                 [] c = "8" -> 8 [] c = "9" -> 9]
DigitChar == <<"1", "2", "3", "4", "5", "6", "7", "8", "9">>

\* The string literals "soil_moisture" (K) and "a" (S), each one lexical character
StrToks == {"K", "S"}

JNum(v)   == [t |-> "num", v |-> v]
JStr(s)   == [t |-> "str", s |-> s]
JNull     == [t |-> "null"]
JArr(xs)  == [t |-> "arr", items |-> xs]
JObj(ks, vs) == [t |-> "obj", keys |-> ks, vals |-> vs]

IsDigitAt(toks, i) == i >= 1 /\ i <= Len(toks) /\ toks[i] \in Digits

\* number of consecutive digits of toks starting at position i
RECURSIVE DigitRun(_, _)
DigitRun(toks, i) == IF IsDigitAt(toks, i) THEN 1 + DigitRun(toks, i + 1) ELSE 0

\* value of the digits toks[i..j] read as a decimal integer
RECURSIVE IntOf(_, _, _)
IntOf(toks, i, j) == IF j < i THEN 0 ELSE IntOf(toks, i, j - 1) * 10 + DigitVal[toks[j]]

\* value of the digits toks[i..j] read as a decimal fraction, in fixed point
RECURSIVE FracOf(_, _, _, _)
FracOf(toks, i, j, unit) ==
    IF j < i THEN 0 ELSE DigitVal[toks[i]] * (unit \div 10) + FracOf(toks, i + 1, j, unit \div 10)

\* float(s) for a text s = [sign] digits* [. digits*] occupying toks[i..j]
FloatOf(toks, i, j) ==
    LET signed == toks[i] \in {"-", "+"}
        s  == IF signed THEN i + 1 ELSE i
        k  == DigitRun(toks, s)
        hasDot == s + k <= j /\ toks[s + k] = "."
        mag == IntOf(toks, s, s + k - 1) * Scale
               + (IF hasDot THEN FracOf(toks, s + k + 1, j, Scale) ELSE 0)
    IN  IF signed /\ toks[i] = "-" THEN -mag ELSE mag

Fail == [ok |-> FALSE, val |-> JNull, pos |-> 0]
Ok(v, p) == [ok |-> TRUE, val |-> v, pos |-> p]

\* json.decoder NUMBER_RE  (-?(?:0|[1-9]\d*))(\.\d+)?  matched at position i
ParseNumber(toks, i) ==
    LET s == IF toks[i] = "-" THEN i + 1 ELSE i
        k == IF ~IsDigitAt(toks, s) THEN 0
             ELSE IF toks[s] = "0" THEN 1 ELSE DigitRun(toks, s)
        f == IF s + k <= Len(toks) /\ toks[s + k] = "." THEN DigitRun(toks, s + k + 1) ELSE 0
        e == IF f > 0 THEN s + k + f ELSE s + k - 1
    IN  IF k = 0 THEN Fail ELSE Ok(JNum(FloatOf(toks, i, e)), e + 1)

\* dict[key] = value : a repeated key keeps its place and takes the new value
Put(obj, key, value) ==
    IF \E n \in 1..Len(obj.keys) : obj.keys[n] = key
    THEN JObj(obj.keys, [n \in 1..Len(obj.keys) |->
                            IF obj.keys[n] = key THEN value ELSE obj.vals[n]])
    ELSE JObj(Append(obj.keys, key), Append(obj.vals, value))

RECURSIVE ParseValue(_, _), ParseElems(_, _, _), ParseMembers(_, _, _)

\* json.scanner py_make_scanner._scan_once
ParseValue(toks, i) ==
    IF i > Len(toks) THEN Fail
    ELSE LET c == toks[i]
         IN  CASE c \in StrToks -> Ok(JStr(c), i + 1)
               [] c = "null" -> Ok(JNull, i + 1)
               [] c = "[" ->
                    IF i + 1 <= Len(toks) /\ toks[i + 1] = "]"
                    THEN Ok(JArr(<<>>), i + 2)
                    ELSE ParseElems(toks, i + 1, <<>>)
               [] c = "{" ->
                    IF i + 1 <= Len(toks) /\ toks[i + 1] = "}"
                    THEN Ok(JObj(<<>>, <<>>), i + 2)
                    ELSE ParseMembers(toks, i + 1, JObj(<<>>, <<>>))
               [] c = "-" \/ c \in Digits -> ParseNumber(toks, i)
               [] OTHER -> Fail

\* json.decoder JSONArray, after the opening bracket
ParseElems(toks, i, acc) ==
    LET v == ParseValue(toks, i)
    IN  IF ~v.ok \/ v.pos > Len(toks) THEN Fail
        ELSE IF toks[v.pos] = "]" THEN Ok(JArr(Append(acc, v.val)), v.pos + 1)
        ELSE IF toks[v.pos] = "," THEN ParseElems(toks, v.pos + 1, Append(acc, v.val))
        ELSE Fail

\* json.decoder JSONObject, after the opening brace
ParseMembers(toks, i, acc) ==
    IF i + 1 > Len(toks) \/ toks[i] \notin StrToks \/ toks[i + 1] # ":" THEN Fail
    ELSE LET v == ParseValue(toks, i + 2)
         IN  IF ~v.ok \/ v.pos > Len(toks) THEN Fail
             ELSE IF toks[v.pos] = "}" THEN Ok(Put(acc, toks[i], v.val), v.pos + 1)
             ELSE IF toks[v.pos] = "," THEN ParseMembers(toks, v.pos + 1, Put(acc, toks[i], v.val))
             ELSE Fail

\* json.loads(text): one value, then the end of the text ("Extra data" otherwise)
json_loads(text) ==
    LET v == ParseValue(text, 1)
    IN  IF v.ok /\ v.pos = Len(text) + 1 THEN v ELSE Fail

\* digits of a non-negative integer
RECURSIVE IntToks(_)
IntToks(n) == IF n < 10 THEN <<IF n = 0 THEN "0" ELSE DigitChar[n]>>
              ELSE IntToks(n \div 10) \o <<IF n % 10 = 0 THEN "0" ELSE DigitChar[n % 10]>>

\* fraction digits of f (0 <= f < unit), trailing zeros dropped
RECURSIVE FracToks(_, _)
FracToks(f, unit) ==
    IF f = 0 THEN <<>>
    ELSE LET d == (f * 10) \div unit
         IN  <<IF d = 0 THEN "0" ELSE DigitChar[d]>> \o FracToks((f * 10) % unit, unit)

\* repr(float) in positional notation: "0.4", "1.0", "-0.1"
float_repr(v) ==
    LET mag == IF v < 0 THEN -v ELSE v
        frac == FracToks(mag % Scale, Scale)
    IN  (IF v < 0 THEN <<"-">> ELSE <<>>) \o IntToks(mag \div Scale) \o <<".">>
        \o (IF frac = <<>> THEN <<"0">> ELSE frac)

RECURSIVE json_dumps(_), DumpItems(_, _), DumpMembers(_, _)

\* json.dumps(value)
json_dumps(j) ==
    CASE j.t = "num"  -> float_repr(j.v)
      [] j.t = "str"  -> <<j.s>>
      [] j.t = "null" -> <<"null">>
      [] j.t = "arr"  -> <<"[">> \o DumpItems(j.items, 1) \o <<"]">>
      [] j.t = "obj"  -> <<"{">> \o DumpMembers(j, 1) \o <<"}">>

DumpItems(xs, n) ==
    IF n > Len(xs) THEN <<>>
    ELSE (IF n > 1 THEN <<",">> ELSE <<>>) \o json_dumps(xs[n]) \o DumpItems(xs, n + 1)

DumpMembers(obj, n) ==
    IF n > Len(obj.keys) THEN <<>>
    ELSE (IF n > 1 THEN <<",">> ELSE <<>>) \o <<obj.keys[n], ":">> \o json_dumps(obj.vals[n])
         \o DumpMembers(obj, n + 1)

-----------------------------------------------------------------------------
\* re.findall(r"[-+]?[0-9]*\.?[0-9]+", text)

\* last position of the match that starts at i, or 0 when none starts there
MatchEnd(toks, i) ==
    LET s == IF toks[i] \in {"-", "+"} THEN i + 1 ELSE i
        k == DigitRun(toks, s)
        f == IF s + k <= Len(toks) /\ toks[s + k] = "." THEN DigitRun(toks, s + k + 1) ELSE 0
    IN  IF f > 0 THEN s + k + f
        ELSE IF k > 0 THEN s + k - 1
        ELSE 0

RECURSIVE findall_numbers(_, _)
findall_numbers(toks, i) ==
    IF i > Len(toks) THEN <<>>
    ELSE LET e == MatchEnd(toks, i)
         IN  IF e = 0 THEN findall_numbers(toks, i + 1)
             ELSE <<FloatOf(toks, i, e)>> \o findall_numbers(toks, e + 1)

-----------------------------------------------------------------------------
\* llm_postprocessing.py

\* What a client may return
RStr(text)   == [t |-> "str", text |-> text]
RDict(obj)   == [t |-> "dict", obj |-> obj]
RList(items) == [t |-> "list", items |-> items]     \* list or tuple
RFloat(v)    == [t |-> "float", v |-> v]
RNone        == [t |-> "none"]

\* str(None): four letters
StrOfNone == <<"x", "x", "x", "x">>

RECURSIVE coerce_response_text(_)
\* LLMPostProcessor._coerce_response_text
coerce_response_text(r) ==
    CASE r.t = "str"  -> r.text
      [] r.t = "dict" -> json_dumps(r.obj)
      [] r.t = "list" -> IF r.items # <<>> THEN coerce_response_text(r.items[1])
                         ELSE <<"[", "]">>
      [] r.t = "float" -> float_repr(r.v)
      [] r.t = "none" -> StrOfNone

\* the slice forgotten: the whole series is returned
TakeAll(seq, n) == seq

\* seq[:n] for n >= 0
Take(seq, n) == SubSeq(seq, 1, Min2(n, Len(seq)))

\* isinstance(values, Iterable)
IsIterable(j) == j.t \in {"arr", "obj", "str"}

\* what "for value in values" yields: list items, dict keys, characters of a string
Elements(j) ==
    CASE j.t = "arr" -> j.items
      [] j.t = "obj" -> [n \in 1..Len(j.keys) |-> JStr(j.keys[n])]
      [] j.t = "str" -> <<JStr("char")>>
      [] OTHER -> <<>>

\* float(value) succeeds: numbers only (the strings here are "soil_moisture", "a"
\* and their characters; None, lists and dicts are a TypeError)
FloatCoercible(j) == j.t = "num"

ParseOk(tier, vals) == [exc |-> None, tier |-> tier, values |-> vals]
ParseErr(msg)       == [exc |-> "ValueError", tier |-> 1, values |-> <<>>, msg |-> msg]

\* the candidate series of tier 1
Candidate(data) ==
    IF data.t = "obj" /\ (\E n \in 1..Len(data.keys) : data.keys[n] = "K")
    THEN data.vals[CHOOSE n \in 1..Len(data.keys) : data.keys[n] = "K"]
    ELSE data

\* tier 1 of parse_response, given the parsed JSON
parse_tier1(data, horizon_hours) ==
    LET values == Candidate(data)
        elems == Elements(values)
    IN  IF ~IsIterable(values) THEN ParseErr("not iterable")
        ELSE IF \E n \in 1..Len(elems) : ~FloatCoercible(elems[n]) THEN ParseErr("invalid value")
        ELSE ParseOk(1, Take([n \in 1..Len(elems) |-> elems[n].v], horizon_hours))

\* a regex fallback that rejects a text without any number
parse_tier2_strict(text, horizon_hours) ==
    IF findall_numbers(text, 1) = <<>> THEN ParseErr("no numbers")
    ELSE ParseOk(2, Take(findall_numbers(text, 1), horizon_hours))

\* tier 2 of parse_response: the regex fallback
parse_tier2(text, horizon_hours) == ParseOk(2, Take(findall_numbers(text, 1), horizon_hours))

\* parse_response that falls back to the regex whenever tier 1 yields no series
parse_response_fallback_on_error(r, horizon_hours) ==
    LET text == coerce_response_text(r)
        data == json_loads(text)
        one == parse_tier1(data.val, horizon_hours)
    IN  IF data.ok /\ one.exc = None THEN one ELSE parse_tier2(text, horizon_hours)

\* LLMPostProcessor.parse_response
parse_response(r, horizon_hours) ==
    LET text == coerce_response_text(r)
        data == json_loads(text)
    IN  IF ~data.ok THEN parse_tier2(text, horizon_hours)
        ELSE parse_tier1(data.val, horizon_hours)

\* format(v, ".<d>f") as the number of 10^-d units, ties to even; unit = Scale / 10^d
Fmt(v, unit) ==
    IF IsNaN(v) THEN NaN
    ELSE LET q == v \div unit
             r == v % unit
         IN  IF 2 * r > unit \/ (2 * r = unit /\ q % 2 = 1) THEN q + 1 ELSE q

StateLine(state) ==
    [timestamp |-> state.timestamp,
     T  |-> Fmt(state.temperature_c, Scale \div 10),
     RH |-> Fmt(state.relative_humidity, Scale \div 10),
     P  |-> Fmt(state.precipitation_mm, Scale \div 100),
     SM |-> Fmt(state.soil_moisture, Scale \div 1000)]

FeatureNames == <<"final_soil_moisture", "mean_humidity", "mean_temperature",
                  "total_precipitation">>

\* LLMPostProcessor.build_prompt
build_prompt(init_state, states, feats) ==
    [initial |-> [T  |-> Fmt(init_state.temperature_c, Scale \div 10),
                  RH |-> Fmt(init_state.relative_humidity, Scale \div 10),
                  P  |-> Fmt(init_state.precipitation_mm, Scale \div 100),
                  SM |-> Fmt(init_state.soil_moisture, Scale \div 1000)],
     state_lines |-> [n \in 1..Len(states) |-> StateLine(states[n])],
     feature_lines |-> [n \in 1..Len(FeatureNames) |->
                          <<FeatureNames[n], Fmt(feats[FeatureNames[n]], Scale \div 1000)>>]]

NoPrompt == build_prompt(AtmosphericState(0, 0, 0, 0, 0), <<>>,
                         export_soil_moisture_features(<<>>))

\* issued_at of the forecast assembled by postprocess
issued_at_of(init_state, states) ==
    IF states # <<>> THEN states[1].timestamp ELSE init_state.timestamp

SoilMoistureForecast(issued, horizon, vals, meta) ==
    [issued_at |-> issued, horizon_hours |-> horizon, values |-> vals, metadata |-> meta]

NoMetadata == [k \in {} |-> 0]

NoForecast == SoilMoistureForecast(0, 0, <<>>, NoMetadata)

-----------------------------------------------------------------------------
\* pipeline.py

NoArg == [given |-> FALSE]

\* model = model or DeterministicAtmosphericModel()
model_or_default(arg) ==
    IF arg.given THEN arg ELSE DefaultModel

\* post_processor = post_processor or LLMPostProcessor()
post_processor_or_default(arg) ==
    IF arg.given THEN arg
    ELSE [given |-> TRUE, client |-> None, horizon_hours |-> DefaultHorizon]

Repeat(v, n) == [k \in 1..n |-> v]

\* length reconciliation whose loop stops one entry short
reconcile_off_by_one(vals, hours_ahead, init_state) ==
    IF Len(vals) < hours_ahead
    THEN LET last_value == IF vals # <<>> THEN vals[Len(vals)] ELSE init_state.soil_moisture
         IN  vals \o Repeat(last_value, hours_ahead - 1 - Len(vals))
    ELSE vals

\* length reconciliation that pads with the initial soil moisture whatever was returned
reconcile_pad_initial(vals, hours_ahead, init_state) ==
    IF Len(vals) < hours_ahead
    THEN vals \o Repeat(init_state.soil_moisture, hours_ahead - Len(vals))
    ELSE vals

\* length reconciliation, pipeline.py lines 39-44
reconcile(vals, hours_ahead, init_state) ==
    IF Len(vals) < hours_ahead
    THEN LET last_value == IF vals # <<>> THEN vals[Len(vals)] ELSE init_state.soil_moisture
         IN  vals \o Repeat(last_value, hours_ahead - Len(vals))
    ELSE vals

\* metadata finalisation that drops what postprocess stored
finalise_metadata_fresh(meta, now, feats) == ("features" :> feats) @@ ("issued_at" :> now)

\* metadata.setdefault("issued_at", now); metadata["features"] = features
finalise_metadata(meta, now, feats) ==
    ("features" :> feats) @@ (meta @@ ("issued_at" :> now))

\* the whole of predict_three_day_soil_moisture, for the client's response resp
predict_three_day_soil_moisture(init_state, raw_weather, model_arg, pp_arg, resp, now) ==
    LET m   == model_or_default(model_arg)
        pp  == post_processor_or_default(pp_arg)
        nw  == load_numerical_weather_outputs(raw_weather)
        sts == predict(m, init_state, nw, pp.horizon_hours)
        fts == export_soil_moisture_features(sts)
        prm == build_prompt(init_state, sts, fts)
        parsed == parse_response(resp, pp.horizon_hours)
    IN  IF pp.client = None
        THEN [raised |-> "RuntimeError", forecast |-> NoForecast, modelled |-> TRUE]
        ELSE IF parsed.exc # None
        THEN [raised |-> parsed.exc, forecast |-> NoForecast, modelled |-> TRUE]
        ELSE [raised |-> None, modelled |-> TRUE,
              forecast |->
                SoilMoistureForecast(
                    issued_at_of(init_state, sts), pp.horizon_hours,
                    reconcile(parsed.values, pp.horizon_hours, init_state),
                    finalise_metadata("prompt" :> prm, now, fts))]

-----------------------------------------------------------------------------
\* Inputs

SoilMoistures == {F(0, 400), F(1, 200), -F(0, 300), NaN}

InitialStates == {AtmosphericState(0, F(18, 0), F(60, 0), F(0, 500), sm) : sm \in SoilMoistures}

\* the pipeline's initial states: one in range, one out of range
PipelineInitialStates ==
    {AtmosphericState(0, F(18, 0), F(60, 0), F(0, 500), sm) : sm \in {F(0, 400), F(1, 200)}}

\* raw weather entries: a full one without hour_index, and one with every
\* weather field missing that carries its own hour_index
RawEntries ==
    { [temperature_c |-> F(18, 0), relative_humidity |-> F(55, 0), precipitation_mm |-> F(0, 200)],
      [timestamp |-> 0, hour_index |-> F(7, 0)] }

WeatherInputs == UNION {[1..n -> RawEntries] : n \in 0..MaxWeather}

RawAlphabet == {"0", "1", ".", "-", "+", ",", "[", "]", "{", "}", "S", "x"}

Texts(maxLen) == UNION {[1..n -> RawAlphabet] : n \in 0..maxLen}

NumVals == {F(0, 400), F(0, 500)}

Series == UNION {[1..n -> NumVals] : n \in 0..MaxSeries}

JSeries(s) == JArr([n \in 1..Len(s) |-> JNum(s[n])])

\* what a response may hold where the series is expected
Cands ==
    {JSeries(s) : s \in Series}
    \cup {JNum(F(0, 400)), JNull, JStr("S"),
          JArr(<<JNum(F(0, 400)), JStr("S")>>), JArr(<<JNull>>),
          JArr(<<JSeries(<<F(0, 400)>>)>>),
          JObj(<<"K">>, <<JSeries(<<F(0, 400)>>)>>)}

Dicts ==
    {JObj(<<"K">>, <<c>>) : c \in Cands}
    \cup {JObj(<<"S">>, <<c>>) : c \in Cands}
    \cup {JObj(<<"S", "K">>, <<JNull, c>>) : c \in Cands}
    \cup {JObj(<<>>, <<>>)}

\* prose around the numbers of a series: "x 0.4 x 0.5 x"
RECURSIVE Prose(_)
Prose(s) == IF s = <<>> THEN <<"x">> ELSE <<"x">> \o float_repr(Head(s)) \o Prose(Tail(s))

StructuredResponses ==
    {RDict(d) : d \in Dicts}
    \cup {RStr(json_dumps(d)) : d \in Dicts \cup Cands}
    \cup {RStr(Prose(s)) : s \in Series}
    \cup {RList(<<RDict(JObj(<<"K">>, <<JSeries(s)>>)), RNone>>) : s \in Series}
    \cup {RList(<<RStr(Prose(s))>>) : s \in Series}
    \cup {RList(<<>>), RNone, RFloat(F(0, 400)), RList(<<RFloat(F(0, 400)), RFloat(F(0, 500))>>),
          RList(<<RList(<<RStr(<<"[", "1", "]">>)>>)>>)}

ParseResponses == {RStr(t) : t \in Texts(MaxTextLen)} \cup StructuredResponses
ClientResponses == {RStr(t) : t \in Texts(MaxReplyLen)} \cup StructuredResponses

Horizons == 0..MaxHorizon

ModelArgs == {NoArg, [given |-> TRUE, evaporation_rate |-> 3000, percolation_rate |-> 500]}

PostProcessorArgs ==
    {NoArg} \cup {[given |-> TRUE, client |-> c, horizon_hours |-> h] :
                    c \in {None, "callable"}, h \in Horizons}

Nows == {1000, 1001}

-----------------------------------------------------------------------------
\* One call of predict_three_day_soil_moisture, statement by statement

PipeIdle ==
    /\ pc = "idle" /\ initial_state = AtmosphericState(0, 0, 0, 0, 0)
    /\ weather_data = <<>> /\ model = NoArg /\ post_processor = NoArg
    /\ normalised_weather = <<>> /\ projected_states = <<>>
    /\ features = export_soil_moisture_features(<<>>) /\ prompt = NoPrompt
    /\ received_prompts = <<>> /\ response = RNone /\ forecast = NoForecast
    /\ raised = None

PipeInit ==
    /\ pc = "start"
    /\ initial_state \in PipelineInitialStates
    /\ weather_data \in WeatherInputs
    /\ model \in ModelArgs
    /\ post_processor \in PostProcessorArgs
    /\ normalised_weather = <<>> /\ projected_states = <<>>
    /\ features = export_soil_moisture_features(<<>>) /\ prompt = NoPrompt
    /\ received_prompts = <<>> /\ response = RNone /\ forecast = NoForecast
    /\ raised = None

\* lines 27-30
Normalise ==
    /\ pc = "start"
    /\ model' = model_or_default(model)
    /\ post_processor' = post_processor_or_default(post_processor)
    /\ normalised_weather' = load_numerical_weather_outputs(weather_data)
    /\ pc' = "normalised"
    /\ UNCHANGED <<initial_state, weather_data, projected_states, features, prompt,
                   received_prompts, response, forecast, raised>>
    /\ UNCHANGED <<evolveVars, parseVars, cliVars>>

\* lines 32-33
Project ==
    /\ pc = "normalised"
    /\ projected_states' = predict(model, initial_state, normalised_weather,
                                   post_processor.horizon_hours)
    /\ pc' = "projected"
    /\ UNCHANGED <<initial_state, weather_data, model, post_processor, normalised_weather,
                   features, prompt, received_prompts, response, forecast, raised>>
    /\ UNCHANGED <<evolveVars, parseVars, cliVars>>

\* line 35
ExportFeatures ==
    /\ pc = "projected"
    /\ features' = export_soil_moisture_features(projected_states)
    /\ pc' = "features"
    /\ UNCHANGED <<initial_state, weather_data, model, post_processor, normalised_weather,
                   projected_states, prompt, received_prompts, response, forecast, raised>>
    /\ UNCHANGED <<evolveVars, parseVars, cliVars>>

\* postprocess, line 110
BuildPrompt ==
    /\ pc = "features"
    /\ prompt' = build_prompt(initial_state, projected_states, features)
    /\ pc' = "prompted"
    /\ UNCHANGED <<initial_state, weather_data, model, post_processor, normalised_weather,
                   projected_states, features, received_prompts, response, forecast, raised>>
    /\ UNCHANGED <<evolveVars, parseVars, cliVars>>

\* _call_client that answers for a missing client with an empty reply
CallClientWithFallback ==
    /\ pc = "prompted"
    /\ IF post_processor.client = None
       THEN response' = RList(<<>>) /\ UNCHANGED received_prompts
       ELSE /\ \E r \in ClientResponses : response' = r
            /\ received_prompts' = Append(received_prompts, prompt)
    /\ pc' = "called"
    /\ UNCHANGED <<initial_state, weather_data, model, post_processor, normalised_weather,
                   projected_states, features, prompt, forecast, raised>>
    /\ UNCHANGED <<evolveVars, parseVars, cliVars>>

\* postprocess, line 111: _call_client
CallClient ==
    /\ pc = "prompted"
    /\ IF post_processor.client = None
       THEN /\ raised' = "RuntimeError"
            /\ pc' = "raised"
            /\ UNCHANGED <<received_prompts, response>>
       ELSE /\ \E r \in ClientResponses : response' = r
            /\ received_prompts' = Append(received_prompts, prompt)
            /\ pc' = "called"
            /\ UNCHANGED raised
    /\ UNCHANGED <<initial_state, weather_data, model, post_processor, normalised_weather,
                   projected_states, features, prompt, forecast>>
    /\ UNCHANGED <<evolveVars, parseVars, cliVars>>

\* postprocess, lines 112-119: parse_response and the forecast's assembly
ParseAndAssemble ==
    /\ pc = "called"
    /\ LET parsed == parse_response(response, post_processor.horizon_hours)
       IN  IF parsed.exc # None
           THEN /\ raised' = parsed.exc
                /\ pc' = "raised"
                /\ UNCHANGED forecast
           ELSE /\ forecast' = SoilMoistureForecast(
                                   issued_at_of(initial_state, projected_states),
                                   post_processor.horizon_hours, parsed.values,
                                   "prompt" :> prompt)
                /\ pc' = "assembled"
                /\ UNCHANGED raised
    /\ UNCHANGED <<initial_state, weather_data, model, post_processor, normalised_weather,
                   projected_states, features, prompt, received_prompts, response>>
    /\ UNCHANGED <<evolveVars, parseVars, cliVars>>

\* lines 39-44
Reconcile ==
    /\ pc = "assembled"
    /\ forecast' = [forecast EXCEPT !.values =
                       reconcile(forecast.values, post_processor.horizon_hours, initial_state)]
    /\ pc' = "reconciled"
    /\ UNCHANGED <<initial_state, weather_data, model, post_processor, normalised_weather,
                   projected_states, features, prompt, received_prompts, response, raised>>
    /\ UNCHANGED <<evolveVars, parseVars, cliVars>>

\* lines 46-49
FinaliseAndReturn ==
    /\ pc = "reconciled"
    /\ \E now \in Nows :
          forecast' = [forecast EXCEPT !.metadata = finalise_metadata(forecast.metadata, now, features)]
    /\ pc' = "returned"
    /\ UNCHANGED <<initial_state, weather_data, model, post_processor, normalised_weather,
                   projected_states, features, prompt, received_prompts, response, raised>>
    /\ UNCHANGED <<evolveVars, parseVars, cliVars>>

-----------------------------------------------------------------------------
\* evolve_state and DeterministicAtmosphericModel.predict called directly

Models == {DefaultModel, [given |-> TRUE, evaporation_rate |-> 3000, percolation_rate |-> 500]}

\* forcing records: mild, saturated air with heavy rain, dry above-100 humidity
\* reading, NaN humidity
Forcings ==
    { [temperature_c |-> F(18, 0), relative_humidity |-> F(55, 0), precipitation_mm |-> F(0, 200), hour_index |-> 0],
      [temperature_c |-> F(5, 0), relative_humidity |-> F(100, 0), precipitation_mm |-> F(5, 0), hour_index |-> 0],
      [temperature_c |-> F(30, 0), relative_humidity |-> 0, precipitation_mm |-> 0, hour_index |-> 0],
      [temperature_c |-> F(30, 0), relative_humidity |-> NaN, precipitation_mm |-> 0, hour_index |-> 0] }

\* step durations in hours: backwards, none, one hour, a day
Steps == {-1, 0, 1, 24}

ForcingSeqs == UNION {[1..n -> Forcings] : n \in 0..MaxWeather}

EvolveIdle ==
    /\ e_call = "idle" /\ e_state = AtmosphericState(0, 0, 0, 0, 0) /\ e_steps = 0
    /\ e_initial = AtmosphericState(0, 0, 0, 0, 0) /\ e_weather = <<>>
    /\ e_model = DefaultModel /\ e_hours_ahead = 0 /\ e_result = <<>>

\* a run exercises either evolve_state (repeatedly, from e_initial) or predict (once)
EvolveInit ==
    /\ e_initial \in InitialStates
    /\ e_state = e_initial /\ e_steps = 0
    /\ e_model \in Models
    /\ e_result = <<>>
    /\ \/ e_call = "evolve_state" /\ e_weather = <<>> /\ e_hours_ahead = 0
       \/ e_call = "predict" /\ e_weather \in ForcingSeqs /\ e_hours_ahead \in Horizons

\* one call of evolve_state on the state the previous call returned
Evolve ==
    /\ e_call = "evolve_state"
    /\ e_steps < MaxEvolve
    /\ \E w \in Forcings, step \in Steps :
          e_state' = evolve_state(e_state, w, step, e_model)
    /\ e_steps' = e_steps + 1
    /\ UNCHANGED <<e_call, e_initial, e_weather, e_model, e_hours_ahead, e_result>>
    /\ UNCHANGED <<pipeVars, parseVars, cliVars>>

\* one call of predict
Predict ==
    /\ e_call = "predict"
    /\ e_result' = predict(e_model, e_initial, e_weather, e_hours_ahead)
    /\ e_call' = "predicted"
    /\ UNCHANGED <<e_state, e_steps, e_initial, e_weather, e_model, e_hours_ahead>>
    /\ UNCHANGED <<pipeVars, parseVars, cliVars>>

-----------------------------------------------------------------------------
\* parse_response called directly

Pending == [exc |-> "pending", tier |-> 0, values |-> <<>>]

ParseIdle == p_response = RNone /\ p_horizon = 0 /\ p_result = Pending

ParseInit == p_response \in ParseResponses /\ p_horizon \in Horizons /\ p_result = Pending

Parse ==
    /\ p_result = Pending
    /\ p_result' = parse_response(p_response, p_horizon)
    /\ UNCHANGED <<p_response, p_horizon>>
    /\ UNCHANGED <<pipeVars, evolveVars, cliVars>>

-----------------------------------------------------------------------------
\* scripts/predict_soil_moisture.py

RequiredKeys == {"timestamp", "temperature_c", "relative_humidity", "precipitation_mm"}

\* the initial-state file: not JSON at all, or a JSON object with the keys it has
\* and whether its timestamp is an ISO-8601 string
StateFiles ==
    {[kind |-> "garbage", keys |-> {}, ts_iso |-> FALSE]}
    \cup {[kind |-> "object", keys |-> ks, ts_iso |-> b] :
            ks \in {RequiredKeys, RequiredKeys \cup {"soil_moisture"}}
                   \cup {(RequiredKeys \cup {"soil_moisture"}) \ {k} : k \in RequiredKeys},
            b \in BOOLEAN}

\* the weather file: not JSON, a JSON scalar, a JSON array of entries, or a JSON
\* object whose "weather" key is absent, an array of entries, or something else
WeatherFiles ==
    {[kind |-> k, weather |-> "absent", entries |-> <<>>] : k \in {"garbage", "scalar"}}
    \cup {[kind |-> "list", weather |-> "absent", entries |-> w] : w \in WeatherInputs}
    \cup {[kind |-> "object", weather |-> "list", entries |-> w] : w \in WeatherInputs}
    \cup {[kind |-> "object", weather |-> k, entries |-> <<>>] : k \in {"absent", "scalar"}}

Loaded(v)  == [exc |-> None, value |-> v]
LoadErr(e) == [exc |-> e, value |-> <<>>]

\* _load_state then AtmosphericState.from_dict
load_state(f) ==
    IF f.kind = "garbage" THEN LoadErr("JSONDecodeError")
    ELSE IF "timestamp" \notin f.keys THEN LoadErr("KeyError")
    ELSE IF ~f.ts_iso THEN LoadErr("ValueError")
    ELSE IF RequiredKeys \ f.keys # {} THEN LoadErr("KeyError")
    ELSE Loaded(AtmosphericState(0, F(18, 0), F(60, 0), F(0, 500),
                                 IF "soil_moisture" \in f.keys THEN F(0, 400) ELSE 0))

\* _load_weather
load_weather(f) ==
    IF f.kind = "garbage" THEN LoadErr("JSONDecodeError")
    ELSE IF f.kind = "object"
         THEN (IF f.weather = "absent" THEN Loaded(<<>>)
               ELSE IF f.weather = "list" THEN Loaded(f.entries)
               ELSE LoadErr("ValueError"))
    ELSE IF f.kind = "list" THEN Loaded(f.entries)
    ELSE LoadErr("ValueError")

NoOutput == [written |-> FALSE, content |-> NoForecast]

CliIdle ==
    /\ cli_pc = "idle"
    /\ state_file = [kind |-> "garbage", keys |-> {}, ts_iso |-> FALSE]
    /\ weather_file = [kind |-> "garbage", weather |-> "absent", entries |-> <<>>]
    /\ cli_exc = None /\ output_file = NoOutput /\ stdout = <<>> /\ cli_modelled = FALSE

CliInit ==
    /\ cli_pc = "start"
    /\ state_file \in StateFiles
    /\ weather_file \in WeatherFiles
    /\ cli_exc = None /\ output_file = NoOutput /\ stdout = <<>> /\ cli_modelled = FALSE

\* main(): one run of the command
Main ==
    /\ cli_pc = "start"
    /\ cli_pc' = "exited"
    /\ LET s == load_state(state_file)
           w == load_weather(weather_file)
       IN  IF s.exc # None
           THEN cli_exc' = s.exc /\ UNCHANGED <<output_file, stdout, cli_modelled>>
           ELSE IF w.exc # None
           THEN cli_exc' = w.exc /\ UNCHANGED <<output_file, stdout, cli_modelled>>
           ELSE \E now \in Nows :
                  LET run == predict_three_day_soil_moisture(s.value, w.value, NoArg, NoArg,
                                                             RNone, now)
                  IN  /\ cli_modelled' = run.modelled
                      /\ cli_exc' = run.raised
                      /\ IF run.raised # None
                         THEN UNCHANGED <<output_file, stdout>>
                         ELSE /\ output_file' = [written |-> TRUE, content |-> run.forecast]
                              /\ stdout' = Append(stdout, "Forecast saved to")
    /\ UNCHANGED <<state_file, weather_file>>
    /\ UNCHANGED <<pipeVars, evolveVars, parseVars>>

-----------------------------------------------------------------------------
\* Specifications

Init == PipeInit /\ EvolveIdle /\ ParseIdle /\ CliIdle

Next ==
    \/ Normalise \/ Project \/ ExportFeatures \/ BuildPrompt \/ CallClient
    \/ ParseAndAssemble \/ Reconcile \/ FinaliseAndReturn

Spec == Init /\ [][Next]_vars

InitEvolve == PipeIdle /\ EvolveInit /\ ParseIdle /\ CliIdle
NextEvolve == Evolve \/ Predict
SpecEvolve == InitEvolve /\ [][NextEvolve]_vars

InitParse == PipeIdle /\ EvolveIdle /\ ParseInit /\ CliIdle
NextParse == Parse
SpecParse == InitParse /\ [][NextParse]_vars

InitCLI == PipeIdle /\ EvolveIdle /\ ParseIdle /\ CliInit
NextCLI == Main
SpecCLI == InitCLI /\ [][NextCLI]_vars

-----------------------------------------------------------------------------
\* Properties

InUnitInterval(v) == ~IsNaN(v) /\ 0 <= v /\ v <= Scale

\* the text the post-processor parses, and what json.loads makes of it
ResponseText(r) == coerce_response_text(r)
IsJson(r) == json_loads(ResponseText(r)).ok

\* the k-element candidate series of a response: in tier 1 the floats of the
\* candidate's elements, in tier 2 the regex matches
CandidateSeries(r) ==
    IF IsJson(r)
    THEN LET elems == Elements(Candidate(json_loads(ResponseText(r)).val))
         IN  [n \in 1..Len(elems) |-> elems[n].v]
    ELSE findall_numbers(ResponseText(r), 1)

\* the client was called and its response has been handled
Handled == pc \in {"assembled", "reconciled", "returned"} \/ (pc = "raised" /\ received_prompts # <<>>)

\* C1: a returned forecast has exactly horizon_hours values
C1_ExactHorizon ==
    pc = "returned" =>
        /\ forecast.horizon_hours = post_processor.horizon_hours
        /\ Len(forecast.values) = forecast.horizon_hours

\* returned after padding: weather and parsed series both shorter than the horizon
C1_Witness ==
    /\ pc = "returned"
    /\ Len(weather_data) < post_processor.horizon_hours
    /\ Len(CandidateSeries(response)) < post_processor.horizon_hours

C3_SoilMoistureClamped ==
    /\ e_steps > 0 => InUnitInterval(e_state.soil_moisture)
    /\ \A i \in 1..Len(e_result) : InUnitInterval(e_result[i].soil_moisture)

\* evolve_state was applied to a state whose soil_moisture is above 1
C3_Witness ==
    /\ e_call = "evolve_state" /\ e_steps = 1
    /\ ~IsNaN(e_initial.soil_moisture) /\ e_initial.soil_moisture > Scale
    /\ e_state.soil_moisture = Scale

\* C4: predict returns min(hours_ahead, len(weather)) states; the i-th is one
\* evolution step with the i-th record from the (i-1)-th state (the initial
\* state for i = 1) and is stamped i hours after the initial state
C4_PredictSequence ==
    e_call = "predicted" =>
        /\ Len(e_result) = Min2(e_hours_ahead, Len(e_weather))
        /\ \A i \in 1..Len(e_result) :
              /\ e_result[i].timestamp = e_initial.timestamp + i
              /\ e_result[i] = evolve_state(IF i = 1 THEN e_initial ELSE e_result[i - 1],
                                            e_weather[i], 1, e_model)
        /\ \A i \in 2..Len(e_result) : e_result[i].timestamp = e_result[i - 1].timestamp + 1

\* predict ran out of weather before the requested hours
C4_Witness ==
    /\ e_call = "predicted"
    /\ Len(e_weather) < e_hours_ahead
    /\ Len(e_result) >= 1

\* C5: parse_response returns exactly the first min(horizon_hours, k) elements
\* of the k-element candidate series, in both tiers
C5_TruncatedNeverPadded ==
    (p_result # Pending /\ p_result.exc = None) =>
        LET cand == CandidateSeries(p_response)
        IN  /\ Len(p_result.values) = Min2(p_horizon, Len(cand))
            /\ Len(p_result.values) <= p_horizon
            /\ \A i \in 1..Len(p_result.values) : p_result.values[i] = cand[i]

\* {"soil_moisture": [x] * k} with k above the horizon parsed to horizon copies of x
C5_Witness ==
    /\ p_result # Pending /\ p_result.exc = None /\ p_result.tier = 1
    /\ p_response.t = "dict"
    /\ p_horizon > 0
    /\ Len(CandidateSeries(p_response)) > p_horizon
    /\ p_result.values = Repeat(F(0, 500), p_horizon)

\* C6: with no client configured the call ends in the configuration error, after
\* the prompt was built, with no client call, no parsing and no forecast
C6_NoClientRaises ==
    (pc # "start" /\ post_processor.client = None) =>
        /\ pc \notin {"called", "assembled", "reconciled", "returned"}
        /\ received_prompts = <<>> /\ response = RNone /\ forecast = NoForecast
        /\ pc = "raised" =>
              /\ raised = "RuntimeError"
              /\ prompt = build_prompt(initial_state, projected_states, features)
              /\ prompt # NoPrompt

\* the default post-processor (no post_processor argument) hit the error
C6_Witness ==
    /\ pc = "raised" /\ raised = "RuntimeError"
    /\ post_processor.horizon_hours = DefaultHorizon
    /\ weather_data # <<>>

WellFormedStateFile(f) == f.kind = "object" /\ RequiredKeys \subseteq f.keys /\ f.ts_iso

WellFormedWeatherFile(f) ==
    \/ f.kind = "list"
    \/ f.kind = "object" /\ f.weather = "list"

\* C7: given well-formed input files the command writes the output file and
\* prints its path; it fails only on malformed input, before any modelling
C7_CliWritesForecast ==
    cli_pc = "exited" =>
        /\ (WellFormedStateFile(state_file) /\ WellFormedWeatherFile(weather_file)) =>
              (cli_exc = None /\ output_file.written /\ stdout # <<>>)
        /\ cli_exc # None =>
              (~(WellFormedStateFile(state_file) /\ WellFormedWeatherFile(weather_file))
               /\ ~cli_modelled)

\* C8: a returned forecast's metadata holds the prompt the client received, the
\* exported features and an issued_at entry; forecast.issued_at is the first
\* projected state's timestamp, or the initial state's when none was projected
C8_Metadata ==
    pc = "returned" =>
        /\ {"prompt", "features", "issued_at"} \subseteq DOMAIN forecast.metadata
        /\ received_prompts = <<forecast.metadata["prompt"]>>
        /\ forecast.metadata["prompt"] = build_prompt(initial_state, projected_states, features)
        /\ forecast.metadata["features"] = export_soil_moisture_features(projected_states)
        /\ forecast.metadata["issued_at"] \in Nows
        /\ forecast.issued_at = IF projected_states # <<>> THEN projected_states[1].timestamp
                                ELSE initial_state.timestamp

\* returned with projected states, so issued_at is not the initial timestamp
C8_Witness ==
    /\ pc = "returned"
    /\ projected_states # <<>>
    /\ forecast.issued_at # initial_state.timestamp

\* C9: the regex tier is used iff the text is not JSON; on JSON text the
\* candidate is the "soil_moisture" value of a mapping that has the key, else
\* the parsed value, and a non-iterable candidate or a non-numeric element is a
\* ValueError with no regex attempt
C9_TierSelection ==
    p_result # Pending =>
        /\ p_result.tier = 2 <=> ~IsJson(p_response)
        /\ IsJson(p_response) =>
              LET data == json_loads(ResponseText(p_response)).val
                  hasKey == data.t = "obj" /\ \E n \in 1..Len(data.keys) : data.keys[n] = "K"
                  cand == IF hasKey
                          THEN data.vals[CHOOSE n \in 1..Len(data.keys) : data.keys[n] = "K"]
                          ELSE data
                  bad == \/ cand.t \in {"num", "null"}
                         \/ cand.t = "str"
                         \/ cand.t = "obj" /\ cand.keys # <<>>
                         \/ cand.t = "arr" /\ \E n \in 1..Len(cand.items) : cand.items[n].t # "num"
              IN  IF bad THEN p_result.exc = "ValueError" /\ p_result.values = <<>>
                  ELSE /\ p_result.exc = None
                       /\ cand.t = "arr" =>
                            p_result.values =
                               Take([n \in 1..Len(cand.items) |-> cand.items[n].v], p_horizon)
                       /\ cand.t = "obj" => p_result.values = <<>>

\* a mapping without "soil_moisture" was iterated over its keys and rejected,
\* although its text holds numbers the regex would have found
C9_Witness ==
    /\ p_result # Pending /\ p_result.exc = "ValueError"
    /\ p_response.t = "dict"
    /\ p_response.obj.keys = <<"S">>
    /\ findall_numbers(ResponseText(p_response), 1) # <<>>

\* C10: a response whose text is not JSON never raises; with no number in the
\* text the returned forecast is horizon_hours copies of the initial soil
\* moisture and its metadata carries nothing about the response
C10_NonJsonNeverRaises ==
    (Handled /\ ~IsJson(response)) =>
        /\ raised = None /\ pc # "raised"
        /\ (pc = "returned" /\ findall_numbers(ResponseText(response), 1) = <<>>) =>
              /\ forecast.values = Repeat(initial_state.soil_moisture, post_processor.horizon_hours)
              /\ DOMAIN forecast.metadata = {"prompt", "features", "issued_at"}

\* prose without any number came back and a full-length forecast was returned
C10_Witness ==
    /\ pc = "returned"
    /\ ~IsJson(response)
    /\ findall_numbers(ResponseText(response), 1) = <<>>
    /\ post_processor.horizon_hours > 0
    /\ forecast.values = Repeat(initial_state.soil_moisture, post_processor.horizon_hours)

====
